---- MODULE Spec2Model ----
(***************************************************************************)
(* Model of the GBIF occurrence downloader (gbif.py): the integrity        *)
(* pre-pass verify_json_files, main's thread pool and as_completed loop,   *)
(* and download_species' pagination/retry loop, run against a simulated    *)
(* remote and a simulated 'occurrences' directory.                         *)
(***************************************************************************)
EXTENDS Integers, Sequences, FiniteSets, TLC

(***************************************************************************)
(* Program constants.  The page size (300) and the record cap (1e7) are    *)
(* scaled down; the cap is kept a non-multiple of the page size, as in the *)
(* source.                                                                 *)
(***************************************************************************)
limit == 2
MAX_RECORDS_PER_SPECIES == 3
PARALLEL_DOWNLOADS == 2
RETRY_COUNT == 3
REQUEST_DELAY == 3    \* tenths of a second
RETRY_DELAY == 50

(* Bounds of the model. *)
MaxHeld == 5          \* most records the remote holds (or declares) for a name
MaxRequests == 7      \* most requests one task may issue
MaxFlaky == 2         \* most transient failures the remote injects in a run
MaxRuns == 2          \* runs of main

None == -1            \* Python's None for total_records

(***************************************************************************)
(* Species names are sequences of characters.                              *)
(***************************************************************************)
NameAB == <<"A", " ", "b">>
NameA_B == <<"A", "_", "b">>
NameC == <<"C">>
Names == {NameAB, NameA_B, NameC}

(* species_name.replace(' ', '_') + '.json' *)
Filename(name) ==
    [i \in 1..Len(name) |-> IF name[i] = " " THEN "_" ELSE name[i]] \o <<".json">>

Paths == {Filename(n) : n \in Names}

(***************************************************************************)
(* Files of the occurrences directory, by what json.load makes of them.    *)
(*   absent  : no such file                                                *)
(*   partial : opened with 'w' (truncated), nothing dumped yet             *)
(*   invalid : bytes that are not JSON                                     *)
(*   notlist : valid JSON whose top-level value is not an array            *)
(*   array   : a JSON array holding the records in data                    *)
(***************************************************************************)
Absent == [kind |-> "absent", data |-> <<>>]
Partial == [kind |-> "partial", data |-> <<>>]
Invalid == [kind |-> "invalid", data |-> <<>>]
NotList == [kind |-> "notlist", data |-> <<>>]
Array(recs) == [kind |-> "array", data |-> recs]

(* os.path.exists(species_path) *)
Exists(f) == f.kind # "absent"

(* json.load succeeds *)
Parses(f) == f.kind \in {"notlist", "array"}

(* isinstance(data, list) *)
IsList(f) == f.kind = "array"

(***************************************************************************)
(* Files of the xlsx_data directory (json_trans.py).                       *)
(***************************************************************************)
(* json_file.replace('.json', '.xlsx') *)
XlsxName(json_file) ==
    [i \in 1..Len(json_file) |-> IF json_file[i] = ".json" THEN ".xlsx" ELSE json_file[i]]

XlsxPaths == {XlsxName(p) : p \in Paths}

NoSheet == [kind |-> "absent", rows |-> <<>>]

(* a workbook that was in xlsx_data before the export ran *)
OldSheet == [kind |-> "old", rows |-> <<>>]

(* json_trans.py lines 74-163: the fields kept of one record *)
Extract(record) == [scientific_name |-> record[1], occurrence |-> record[2]]

(* json_trans.py lines 73-173: the workbook to_excel writes for the records *)
Sheet(data) == [kind |-> "sheet", rows |-> [k \in 1..Len(data) |-> Extract(data[k])]]

ExportIdle == [pc |-> "idle", todo |-> {}, runs |-> 0, first |-> <<>>]

VARIABLES
    files,            \* path -> file content
    remote,           \* name -> [held, count, down]: the simulated remote
    flaky,            \* transient failures the remote may still inject
    flaky0,           \* the transient failures the remote had in store for this run
    species_list,     \* the content of the input list
    main_pc,          \* "verify", "load", "pool", "ended"
    invalid_count,    \* verify_json_files' return value
    tasks,            \* one record per submitted future
    total_downloaded, \* main's counters
    completed_species,
    run,              \* number of the current run of main
    files0,           \* the directory as it was when the current run started
    zero_before,      \* names whose call of the previous run ended with no record
    peak,             \* most calls that were in progress together in this run
    xlsx,             \* xlsx_data: output path -> workbook
    export            \* json_trans.py: [pc, todo, runs, first]

vars == <<files, remote, flaky, flaky0, species_list, main_pc, invalid_count,
          tasks, total_downloaded, completed_species, run, files0,
          zero_before, peak, xlsx, export>>

(***************************************************************************)
(* The remote.  Record k of a name is <<name, k>>; a request for (name,    *)
(* offset, limit) returns records offset+1 .. min(offset+limit, held) and  *)
(* the declared total 'count'.                                             *)
(***************************************************************************)
Min(a, b) == IF a < b THEN a ELSE b

Records(name, from, to) == [k \in 1..(IF to >= from THEN to - from + 1 ELSE 0) |-> <<name, from + k - 1>>]

Response(name, offset) ==
    [bound |-> TRUE,
     results |-> Records(name, offset + 1, Min(offset + limit, remote[name].held)),
     count |-> remote[name].count]

Unbound == [bound |-> FALSE, results |-> <<>>, count |-> 0]

(***************************************************************************)
(* download_species: locals of one call.  reqs, waits and outcomes record  *)
(* each request: its offset, the sleeps the call took since its previous   *)
(* request, and how it ended; delay holds the sleeps of line 107 taken     *)
(* since the last request.                                                 *)
(***************************************************************************)
NewTask(name) ==
    [name |-> name, pc |-> "Queued", offset |-> 0, all_results |-> <<>>,
     record_count |-> 0, page_count |-> 0, total_records |-> None,
     retry_count |-> 0, data |-> Unbound, results |-> <<>>, ret |-> 0,
     reqs |-> <<>>, consumed |-> FALSE,
     delay |-> <<>>, waits |-> <<>>, outcomes |-> <<>>]

Active == {"Paging", "Saving", "Dumping"}
Ended == {"Completed", "Skipped", "Failed"}

TaskIds == 1..Len(tasks)

(* lines 26-27 with the path taken from a variable all calls share *)
PathOfShared(i) == Filename(tasks[1].name)

(* lines 26-27: species_path of call i *)
PathOf(i) == Filename(tasks[i].name)

(* line 96 without the declared-total test *)
StopCondNoTotal(results, record_count, total_records) ==
    \/ Len(results) < limit
    \/ record_count >= MAX_RECORDS_PER_SPECIES

(* line 96 without the cap test *)
StopCondNoCap(results, record_count, total_records) ==
    \/ Len(results) < limit
    \/ record_count >= total_records

(* line 96 with the declared total only stopping once it is exceeded *)
StopCondTotalExceeded(results, record_count, total_records) ==
    \/ Len(results) < limit
    \/ record_count >= MAX_RECORDS_PER_SPECIES
    \/ record_count > total_records

(* line 96: the end-of-results / cap / declared-total test *)
StopCond(results, record_count, total_records) ==
    \/ Len(results) < limit
    \/ record_count >= MAX_RECORDS_PER_SPECIES
    \/ record_count >= total_records

(* line 113: the test that leaves the pagination loop *)
OuterBreak(data, results, record_count, total_records) ==
    \/ data.results = <<>>
    \/ StopCond(results, record_count, total_records)

(* lines 116-125 without the 'if all_results' test: the file is always written *)
AfterLoopAlwaysSaves(t) == [t EXCEPT !.pc = "Saving"]

(* lines 116-125: what follows the loop, up to the next file operation *)
AfterLoop(t) ==
    IF t.all_results # <<>>
    THEN [t EXCEPT !.pc = "Saving"]
    ELSE [t EXCEPT !.pc = "Completed", !.ret = 0]

(* lines 109-114 after the retry loop ended, then the next iteration *)
EndOfIteration(t) ==
    IF ~t.data.bound
    THEN \* line 113 reads 'data' before any assignment: UnboundLocalError,
         \* caught by 'except Exception' (lines 127-129)
         [t EXCEPT !.pc = "Failed", !.ret = 0]
    ELSE IF OuterBreak(t.data, t.results, t.record_count, t.total_records)
    THEN AfterLoop(t)
    ELSE [t EXCEPT !.retry_count = 0]

(* lines 68-102: a request that succeeds *)
PageReceived(t, resp) ==
    LET t1 == [t EXCEPT !.data = resp,
                        !.outcomes = Append(@, "ok"),
                        !.page_count = @ + 1,
                        !.total_records = IF @ = None THEN resp.count ELSE @]
    IN  IF resp.results = <<>>
        THEN EndOfIteration(t1)
        ELSE LET t2 == [t1 EXCEPT !.results = resp.results,
                                  !.all_results = @ \o resp.results,
                                  !.record_count = @ + Len(resp.results)]
             IN  IF StopCond(t2.results, t2.record_count, t2.total_records)
                 THEN EndOfIteration(t2)
                 ELSE EndOfIteration([t2 EXCEPT !.offset = @ + limit])

(* lines 104-107 with the retry loop running one attempt too many *)
PageFailedOffByOne(t) ==
    LET t1 == [t EXCEPT !.retry_count = @ + 1,
                        !.outcomes = Append(@, "failed"),
                        !.delay = Append(@, RETRY_DELAY)]
    IN  IF t1.retry_count <= RETRY_COUNT THEN t1 ELSE [t1 EXCEPT !.pc = "Failed", !.ret = 0]

(* lines 104-107 with a failed attempt moving on to the next page *)
PageFailedSkipsPage(t) ==
    LET t1 == [t EXCEPT !.retry_count = @ + 1, !.offset = @ + limit,
                        !.outcomes = Append(@, "failed"),
                        !.delay = Append(@, RETRY_DELAY)]
    IN  IF t1.retry_count < RETRY_COUNT THEN t1 ELSE EndOfIteration(t1)

(* lines 104-106 without the sleep of line 107 *)
PageFailedNoSleep(t) ==
    LET t1 == [t EXCEPT !.retry_count = @ + 1, !.outcomes = Append(@, "failed")]
    IN  IF t1.retry_count < RETRY_COUNT THEN t1 ELSE EndOfIteration(t1)

(* lines 104-107: a request that raises RequestException *)
PageFailed(t) ==
    LET t1 == [t EXCEPT !.retry_count = @ + 1,
                        !.outcomes = Append(@, "failed"),
                        !.delay = Append(@, RETRY_DELAY)]
    IN  IF t1.retry_count < RETRY_COUNT THEN t1 ELSE EndOfIteration(t1)

(***************************************************************************)
(* verify_json_files                                                       *)
(***************************************************************************)
(* lines 142-155 without the isinstance test of line 148 *)
InvalidFilesParseOnly(fs) == {p \in Paths : Exists(fs[p]) /\ ~Parses(fs[p])}

(* lines 142-155 with the empty array of line 150 counted as invalid *)
InvalidFilesWithEmpty(fs) ==
    {p \in Paths : Exists(fs[p]) /\ (~(Parses(fs[p]) /\ IsList(fs[p])) \/ fs[p].data = <<>>)}

(* lines 139-155: the files that fail to load or hold no list *)
InvalidFiles(fs) == {p \in Paths : Exists(fs[p]) /\ ~(Parses(fs[p]) /\ IsList(fs[p]))}

VerifyJsonFiles ==
    /\ main_pc = "verify"
    /\ files' = [p \in Paths |-> IF p \in InvalidFiles(files) THEN Absent ELSE files[p]]
    /\ invalid_count' = Cardinality(InvalidFiles(files))
    /\ main_pc' = "load"
    /\ UNCHANGED <<xlsx, export, remote, flaky, flaky0, species_list, tasks, total_downloaded,
                   completed_species, run, files0,
                   zero_before, peak>>

(***************************************************************************)
(* main                                                                    *)
(***************************************************************************)
(* lines 171-177: the list cannot be read; main returns *)
(* the list would be reported unreadable only after the futures were queued *)
LoadFailsAfterSubmit ==
    /\ main_pc = "load"
    /\ main_pc' = "ended"
    /\ tasks' = [i \in 1..Len(species_list) |-> NewTask(species_list[i])]
    /\ UNCHANGED <<xlsx, export, files, remote, flaky, flaky0, species_list, invalid_count,
                   total_downloaded, completed_species, run, files0,
                   zero_before, peak>>

LoadFails ==
    /\ main_pc = "load"
    /\ main_pc' = "ended"
    /\ UNCHANGED <<xlsx, export, files, remote, flaky, flaky0, species_list, invalid_count, tasks,
                   total_downloaded, completed_species, run, files0,
                   zero_before, peak>>

(* lines 171-193: the list is read and one future is submitted per entry *)
LoadAndSubmit ==
    /\ main_pc = "load"
    /\ tasks' = [i \in 1..Len(species_list) |-> NewTask(species_list[i])]
    /\ total_downloaded' = 0
    /\ completed_species' = 0
    /\ main_pc' = "pool"
    /\ UNCHANGED <<xlsx, export, files, remote, flaky, flaky0, species_list, invalid_count, run, files0,
                   zero_before, peak>>

(* the calls in progress in ts, and the most there were so far *)
InProgress(ts) ==
    LET n == Cardinality({j \in 1..Len(ts) : ts[j].pc \in Active})
    IN  IF n > peak THEN n ELSE peak

(* the pool starting one thread more than configured *)
CanStartOneMore(i) ==
    /\ main_pc = "pool"
    /\ tasks[i].pc = "Queued"
    /\ \A j \in 1..(i - 1) : tasks[j].pc # "Queued"
    /\ Cardinality({j \in TaskIds : tasks[j].pc \in Active}) <= PARALLEL_DOWNLOADS

(* a pool thread is free and i is the oldest future still queued *)
CanStart(i) ==
    /\ main_pc = "pool"
    /\ tasks[i].pc = "Queued"
    /\ \A j \in 1..(i - 1) : tasks[j].pc # "Queued"
    /\ Cardinality({j \in TaskIds : tasks[j].pc \in Active}) < PARALLEL_DOWNLOADS

(* lines 26-57 without the existence test of line 30 *)
SkipNotTaken(i) ==
    /\ CanStart(i)
    /\ Exists(files[PathOf(i)])
    /\ tasks' = [tasks EXCEPT ![i].pc = "Paging"]
    /\ peak' = InProgress(tasks')
    /\ UNCHANGED <<xlsx, export, files, remote, flaky, flaky0, species_list, main_pc, invalid_count,
                   total_downloaded, completed_species, run, files0, zero_before>>

(* lines 26-33: the artifact exists, the call returns 0 *)
Skip(i) ==
    /\ CanStart(i)
    /\ Exists(files[PathOf(i)])
    /\ tasks' = [tasks EXCEPT ![i].pc = "Skipped", ![i].ret = 0]
    /\ UNCHANGED <<xlsx, export, files, remote, flaky, flaky0, species_list, main_pc, invalid_count,
                   total_downloaded, completed_species, run, files0,
                   zero_before, peak>>

(* lines 26-57: no artifact, the call enters the pagination loop *)
Begin(i) ==
    /\ CanStart(i)
    /\ ~Exists(files[PathOf(i)])
    /\ tasks' = [tasks EXCEPT ![i].pc = "Paging"]
    /\ peak' = InProgress(tasks')
    /\ UNCHANGED <<xlsx, export, files, remote, flaky, flaky0, species_list, main_pc, invalid_count,
                   total_downloaded, completed_species, run, files0, zero_before>>

(* lines 65-66: the sleeps a call has taken when it issues its next request *)
Sleeps(t) == t.delay \o (IF t.page_count > 0 THEN <<REQUEST_DELAY>> ELSE <<>>)

(* lines 65-68: the call sleeps if it has had a page, then sends the request *)
Requested(t) ==
    [t EXCEPT !.reqs = Append(@, t.offset), !.waits = Append(@, Sleeps(t)), !.delay = <<>>]

(* line 68 answered by the remote *)
RequestOk(i) ==
    /\ tasks[i].pc = "Paging"
    /\ Len(tasks[i].reqs) < MaxRequests
    /\ remote[tasks[i].name].down # tasks[i].offset
    /\ tasks' = [tasks EXCEPT ![i] = PageReceived(Requested(@), Response(@.name, @.offset))]
    /\ UNCHANGED <<xlsx, export, files, remote, flaky, flaky0, species_list, main_pc, invalid_count,
                   total_downloaded, completed_species, run, files0,
                   zero_before, peak>>

(* line 68/69 raising RequestException: the page is down, or a transient failure *)
RequestFails(i) ==
    /\ tasks[i].pc = "Paging"
    /\ Len(tasks[i].reqs) < MaxRequests
    /\ \/ remote[tasks[i].name].down = tasks[i].offset /\ flaky' = flaky
       \/ remote[tasks[i].name].down # tasks[i].offset /\ flaky > 0 /\ flaky' = flaky - 1
    /\ tasks' = [tasks EXCEPT ![i] = PageFailed(Requested(@))]
    /\ UNCHANGED <<xlsx, export, files, remote, flaky0, species_list, main_pc, invalid_count,
                   total_downloaded, completed_species, run, files0,
                   zero_before, peak>>

(* line 118: open(species_path, 'w') creates or truncates the file *)
OpenForWrite(i) ==
    /\ tasks[i].pc = "Saving"
    /\ files' = [files EXCEPT ![PathOf(i)] = Partial]
    /\ tasks' = [tasks EXCEPT ![i].pc = "Dumping"]
    /\ UNCHANGED <<xlsx, export, remote, flaky, flaky0, species_list, main_pc, invalid_count,
                   total_downloaded, completed_species, run, files0,
                   zero_before, peak>>

(* What the file holds after this writer's bytes land at position 0 of what
   is there: a longer array written meanwhile by another writer of the same
   path keeps its tail, which is no JSON. *)
Dumped(cur, recs) ==
    IF cur.kind = "array" /\ cur.data # recs /\ Len(cur.data) > Len(recs)
    THEN Invalid
    ELSE Array(recs)

(* lines 119-122: json.dump, close, return record_count *)
Dump(i) ==
    /\ tasks[i].pc = "Dumping"
    /\ files' = [files EXCEPT ![PathOf(i)] = Dumped(@, tasks[i].all_results)]
    /\ tasks' = [tasks EXCEPT ![i].pc = "Completed", ![i].ret = tasks[i].record_count]
    /\ UNCHANGED <<xlsx, export, remote, flaky, flaky0, species_list, main_pc, invalid_count,
                   total_downloaded, completed_species, run, files0,
                   zero_before, peak>>

(* lines 199-201 with the total overwritten by the count of the last call *)
ConsumeLosesUpdate(i) ==
    /\ main_pc = "pool"
    /\ tasks[i].pc \in Ended
    /\ ~tasks[i].consumed
    /\ total_downloaded' = tasks[i].ret
    /\ completed_species' = completed_species + 1
    /\ tasks' = [tasks EXCEPT ![i].consumed = TRUE]
    /\ UNCHANGED <<xlsx, export, files, remote, flaky, flaky0, species_list, main_pc, invalid_count,
                   run, files0,
                   zero_before, peak>>

(* lines 196-201: as_completed yields a finished future *)
Consume(i) ==
    /\ main_pc = "pool"
    /\ tasks[i].pc \in Ended
    /\ ~tasks[i].consumed
    /\ total_downloaded' = total_downloaded + tasks[i].ret
    /\ completed_species' = completed_species + 1
    /\ tasks' = [tasks EXCEPT ![i].consumed = TRUE]
    /\ UNCHANGED <<xlsx, export, files, remote, flaky, flaky0, species_list, main_pc, invalid_count,
                   run, files0,
                   zero_before, peak>>

(* lines 196-218 with a failed call ending the loop over the futures *)
FinishOnFailure ==
    /\ main_pc = "pool"
    /\ \/ \A i \in TaskIds : tasks[i].consumed
       \/ \E i \in TaskIds : tasks[i].pc = "Failed"
    /\ main_pc' = "ended"
    /\ UNCHANGED <<xlsx, export, files, remote, flaky, flaky0, species_list, invalid_count, tasks,
                   total_downloaded, completed_species, run, files0,
                   zero_before, peak>>

(* lines 213-218: every future was yielded, the pool is shut down *)
Finish ==
    /\ main_pc = "pool"
    /\ \A i \in TaskIds : tasks[i].consumed
    /\ main_pc' = "ended"
    /\ UNCHANGED <<xlsx, export, files, remote, flaky, flaky0, species_list, invalid_count, tasks,
                   total_downloaded, completed_species, run, files0,
                   zero_before, peak>>

(* the analyst starts main again *)
NextRun ==
    /\ main_pc = "ended"
    /\ run < MaxRuns
    /\ run' = run + 1
    /\ main_pc' = "verify"
    /\ files0' = files
    /\ tasks' = <<>>
    /\ invalid_count' = 0
    /\ total_downloaded' = 0
    /\ completed_species' = 0
    /\ flaky' \in {0, MaxFlaky}
    /\ flaky0' = flaky'
    /\ zero_before' = {tasks[i].name : i \in {j \in TaskIds :
                            tasks[j].pc \in {"Completed", "Failed"} /\ tasks[j].all_results = <<>>}}
    /\ peak' = 0
    /\ UNCHANGED <<xlsx, export, files, remote, species_list>>

(***************************************************************************)
(* Initial states: a directory left by earlier runs, a remote, a list.     *)
(***************************************************************************)
Healthy(h) == [held |-> h, count |-> h, down |-> None]

Profiles ==
    [held : 0..MaxHeld, count : 0..MaxHeld, down : {None, 0, limit}]

RemoteOf(n1, p1, n2, p2) ==
    [n \in Names |-> IF n = n1 THEN p1 ELSE IF n = n2 THEN p2 ELSE Healthy(1)]

FilesOf(p, f) == [q \in Paths |-> IF q = p THEN f ELSE Absent]

LeftBehind(name) ==
    {Absent, Invalid, NotList, Array(<<>>), Array(Records(name, 1, 1))}

(* one species, any remote, any leftover of its artifact *)
InitOne ==
    /\ species_list = <<NameAB>>
    /\ \E p \in Profiles : remote = RemoteOf(NameAB, p, NameAB, p)
    /\ \E f \in LeftBehind(NameAB) : files = FilesOf(Filename(NameAB), f)

(* two entries: distinct artifacts, one artifact under two names, one name twice *)
InitTwo ==
    /\ species_list \in {<<NameAB, NameC>>, <<NameAB, NameA_B>>, <<NameAB, NameAB>>}
    /\ \E h1 \in {1, 3}, d1 \in {None, 0}, h2 \in {1, 3} :
          remote = RemoteOf(species_list[2], Healthy(h2),
                            species_list[1], [Healthy(h1) EXCEPT !.down = d1])
    /\ \E f \in {Absent, Invalid, Array(<<>>)}, g \in {Absent, NotList} :
          files = [FilesOf(Filename(NameAB), f) EXCEPT ![Filename(NameC)] = g]

Init ==
    /\ InitOne \/ InitTwo
    /\ flaky \in {0, MaxFlaky}
    /\ flaky0 = flaky
    /\ main_pc = "verify"
    /\ invalid_count = 0
    /\ tasks = <<>>
    /\ total_downloaded = 0
    /\ completed_species = 0
    /\ run = 1
    /\ files0 = files
    /\ zero_before = {}
    /\ peak = 0
    /\ xlsx = [x \in XlsxPaths |-> NoSheet]
    /\ export = ExportIdle

Next ==
    \/ VerifyJsonFiles
    \/ LoadFails
    \/ LoadAndSubmit
    \/ \E i \in TaskIds : Skip(i)
    \/ \E i \in TaskIds : Begin(i)
    \/ \E i \in TaskIds : RequestOk(i)
    \/ \E i \in TaskIds : RequestFails(i)
    \/ \E i \in TaskIds : OpenForWrite(i)
    \/ \E i \in TaskIds : Dump(i)
    \/ \E i \in TaskIds : Consume(i)
    \/ Finish
    \/ NextRun

Spec == Init /\ [][Next]_vars

(***************************************************************************)
(* Properties                                                              *)
(***************************************************************************)
Ceil(a, b) == (a + b - 1) \div b

(* the offsets 0, limit, 2*limit, ... of n consecutive pages *)
Offsets(n) == [k \in 1..n |-> (k - 1) * limit]

(* no other submitted entry has the artifact path of entry i *)
SoleOwner(i) == \A j \in TaskIds : j # i => PathOf(j) # PathOf(i)

(* the remote never fails a request of this run for the name *)
NeverFails(name) == remote[name].down = None /\ flaky0 = 0

(* the remote holds exactly 'total' records and declares as many *)
Holds(name, total) == remote[name].held = total /\ remote[name].count = total

(* the call of entry i went through the pagination loop and returned *)
Downloaded(i) == tasks[i].pc \in {"Completed", "Failed"}

PagedThrough(i, total) ==
    /\ tasks[i].reqs = Offsets(Ceil(total, limit))
    /\ tasks[i].all_results = Records(tasks[i].name, 1, total)
    /\ tasks[i].pc = "Completed"
    /\ tasks[i].ret = total
    /\ SoleOwner(i) => files[PathOf(i)] = Array(Records(tasks[i].name, 1, total))

(* C1 as stated: against a remote that never fails and holds exactly total
   >= 1 records, the call issues exactly ceil(total / limit) requests, at
   offsets 0, limit, 2*limit, ..., and the artifact holds the total records,
   each once, in page order. *)
C1_AnyTotal ==
    \A i \in TaskIds : \A total \in 1..MaxHeld :
        (Downloaded(i) /\ NeverFails(tasks[i].name) /\ Holds(tasks[i].name, total))
            => PagedThrough(i, total)

(* C1, amended: the same for every total from 1 up to the per-species cap
   MAX_RECORDS_PER_SPECIES. *)
C1_Pagination ==
    \A i \in TaskIds : \A total \in 1..MAX_RECORDS_PER_SPECIES :
        (Downloaded(i) /\ NeverFails(tasks[i].name) /\ Holds(tasks[i].name, total))
            => PagedThrough(i, total)

C1_Witness ==
    \E i \in TaskIds :
        /\ Downloaded(i) /\ NeverFails(tasks[i].name) /\ Holds(tasks[i].name, 3)
        /\ SoleOwner(i)
        /\ tasks[i].reqs = <<0, limit>>
        /\ Len(files[PathOf(i)].data) = 3

(* the attempts entry i made for the page at offset o *)
Attempts(i, o) == Cardinality({k \in 1..Len(tasks[i].reqs) : tasks[i].reqs[k] = o})

(* C2 as stated: when every attempt for a page fails after a full page was
   accumulated, the call stops after RETRY_COUNT attempts for that page: with
   RETRY_COUNT attempts made it has left the pagination loop (it goes on to
   write what it accumulated and reaches Completed), and it never makes
   another attempt. *)
C2_StopsAfterRetries ==
    \A i \in TaskIds :
        LET o == remote[tasks[i].name].down
        IN  (o = limit /\ tasks[i].record_count >= limit /\ Attempts(i, o) >= RETRY_COUNT)
                => /\ tasks[i].pc \in {"Saving", "Dumping", "Completed"}
                   /\ Attempts(i, o) = RETRY_COUNT

(* C3: against a remote that fails every request for the species, the call
   issues exactly RETRY_COUNT requests, all at offset 0, then returns 0; it
   never opens its artifact, so no file is created for it. *)
C3_RetryExhaustion ==
    \A i \in TaskIds :
        remote[tasks[i].name].down = 0
            => /\ tasks[i].pc \in {"Queued", "Paging", "Skipped", "Failed"}
               /\ Len(tasks[i].reqs) <= RETRY_COUNT
               /\ \A k \in 1..Len(tasks[i].reqs) : tasks[i].reqs[k] = 0
               /\ tasks[i].all_results = <<>>
               /\ tasks[i].pc = "Failed"
                    => /\ Len(tasks[i].reqs) = RETRY_COUNT
                       /\ tasks[i].ret = 0
                       /\ SoleOwner(i) => ~Exists(files[PathOf(i)])

C3_Witness ==
    \E i \in TaskIds :
        /\ remote[tasks[i].name].down = 0
        /\ tasks[i].pc = "Failed"
        /\ tasks[i].reqs = <<0, 0, 0>>
        /\ ~Exists(files[PathOf(i)])

(* entry i is taken from the queue in this step *)
Starts(i) == tasks[i].pc = "Queued" /\ main_pc' = "pool" /\ tasks'[i].pc # "Queued"

(* C4: a call that finds its artifact file in place when it starts goes
   straight to Skipped: the step issues no request and leaves every file as
   it is, whatever the other workers are doing; a skipped call has returned 0
   and has issued no request. *)
C4_IdempotentSkip ==
    /\ [][\A i \in TaskIds :
            (Starts(i) /\ Exists(files[PathOf(i)]))
                => /\ tasks'[i].pc = "Skipped"
                   /\ tasks'[i].reqs = <<>>
                   /\ files' = files]_vars
    /\ [](\A i \in TaskIds :
            tasks[i].pc = "Skipped" => tasks[i].ret = 0 /\ tasks[i].reqs = <<>>)
    /\ [][\A i \in TaskIds :
            (tasks[i].pc = "Skipped" /\ main_pc' = "pool") => tasks'[i].pc = "Skipped"]_vars

C4_Witness ==
    \E i, j \in TaskIds :
        /\ tasks[i].pc = "Skipped"
        /\ files[PathOf(i)].kind = "array"
        /\ files[PathOf(i)].data # <<>>
        /\ tasks[j].pc \in Active

(* C5 as stated: whatever the list holds, no two calls are in progress at
   the same time for the same artifact path. *)
C5_OneCallPerArtifact ==
    \A i, j \in TaskIds :
        (i # j /\ tasks[i].pc \in Active /\ tasks[j].pc \in Active)
            => PathOf(i) # PathOf(j)

(* the remote declares more than the cap and has a full page for every
   request made before the cap is reached *)
FullPagesBeyondCap(name) ==
    /\ remote[name].count > MAX_RECORDS_PER_SPECIES
    /\ remote[name].held >= Ceil(MAX_RECORDS_PER_SPECIES, limit) * limit

(* C6: against a remote that never fails, declares more than the cap and
   serves full pages, the call is in the pagination loop only while it holds
   fewer records than the cap; it leaves the loop after exactly
   ceil(cap / limit) requests holding between cap and cap + limit - 1
   records. *)
C6_CapEnforcement ==
    \A i \in TaskIds :
        (NeverFails(tasks[i].name) /\ FullPagesBeyondCap(tasks[i].name))
            => /\ tasks[i].pc = "Paging" => tasks[i].record_count < MAX_RECORDS_PER_SPECIES
               /\ tasks[i].pc \in {"Saving", "Dumping", "Completed"}
                    => /\ tasks[i].reqs = Offsets(Ceil(MAX_RECORDS_PER_SPECIES, limit))
                       /\ tasks[i].record_count >= MAX_RECORDS_PER_SPECIES
                       /\ tasks[i].record_count <= MAX_RECORDS_PER_SPECIES + limit - 1
                       /\ Len(tasks[i].all_results) = tasks[i].record_count
               /\ tasks[i].pc # "Failed"

C6_Witness ==
    \E i \in TaskIds :
        /\ NeverFails(tasks[i].name) /\ FullPagesBeyondCap(tasks[i].name)
        /\ remote[tasks[i].name].held > tasks[i].record_count
        /\ tasks[i].pc = "Completed"
        /\ tasks[i].record_count >= MAX_RECORDS_PER_SPECIES

(* C7: a call that leaves the pagination loop without any record returns 0
   and creates no file; in the next run the species is not skipped: its call
   enters the loop again and issues requests. *)
C7_EmptyResult ==
    /\ \A i \in TaskIds :
          (Downloaded(i) /\ tasks[i].all_results = <<>>)
              => /\ tasks[i].ret = 0
                 /\ SoleOwner(i) => ~Exists(files[PathOf(i)])
    /\ \A i \in TaskIds :
          (tasks[i].name \in zero_before /\ SoleOwner(i))
              => /\ tasks[i].pc # "Skipped"
                 /\ tasks[i].pc \in Ended => tasks[i].reqs # <<>>

C7_Witness ==
    \E i \in TaskIds :
        /\ run = 2
        /\ tasks[i].name \in zero_before /\ SoleOwner(i)
        /\ remote[tasks[i].name].down = None
        /\ tasks[i].pc = "Completed"
        /\ tasks[i].all_results = <<>>
        /\ tasks[i].reqs = <<0>>

(* a file that is there and is not a JSON array *)
Corrupt(f) == f.kind \in {"invalid", "notlist", "partial"}

(* the remote answers the name within the retry budget and holds records *)
Serves(name) ==
    remote[name].down = None /\ flaky0 < RETRY_COUNT /\ remote[name].held >= 1

(* C8: a listed species whose artifact is corrupt when a run starts has the
   file deleted before any worker starts, is not skipped in that run, is
   requested from offset 0 and, the remote serving it, ends the run with an
   artifact that is the JSON array of the records its call accumulated; files
   are deleted by the scanner only, before the pool exists. *)
C8_CorruptionRecovery ==
    /\ [](\A i \in TaskIds :
            (Corrupt(files0[PathOf(i)]) /\ SoleOwner(i))
                => /\ tasks[i].pc # "Skipped"
                   /\ tasks[i].pc = "Queued" => ~Exists(files[PathOf(i)])
                   /\ tasks[i].reqs # <<>> => tasks[i].reqs[1] = 0
                   /\ (Serves(tasks[i].name) /\ tasks[i].pc \in Ended)
                        => /\ tasks[i].pc = "Completed"
                           /\ tasks[i].all_results # <<>>
                           /\ tasks[i].all_results =
                                Records(tasks[i].name, 1, Len(tasks[i].all_results))
                           /\ files[PathOf(i)] = Array(tasks[i].all_results))
    /\ [][(\E p \in Paths : Exists(files[p]) /\ ~Exists(files'[p]))
            => (main_pc = "verify" /\ tasks = <<>>)]_vars

C8_Witness ==
    \E i \in TaskIds :
        /\ Corrupt(files0[PathOf(i)]) /\ SoleOwner(i)
        /\ tasks[i].pc = "Completed"
        /\ Len(tasks[i].reqs) >= 2
        /\ files[PathOf(i)] = Array(tasks[i].all_results)
        /\ main_pc = "ended"

(* C9: the scanner deletes exactly the files that are there and are not a
   JSON array, leaves every other file as it was, the empty array included,
   and returns the number of files it deleted; a species whose artifact is
   the empty array is skipped and never requested. *)
C9_ScannerFrame ==
    /\ main_pc = "load"
          => \A p \in Paths :
                files[p] = IF Corrupt(files0[p]) THEN Absent ELSE files0[p]
    /\ main_pc # "verify"
          => invalid_count = Cardinality({p \in Paths : Corrupt(files0[p])})
    /\ \A i \in TaskIds :
          files0[PathOf(i)] = Array(<<>>)
              => /\ tasks[i].pc \in {"Queued", "Skipped"}
                 /\ tasks[i].reqs = <<>>
                 /\ files[PathOf(i)] = Array(<<>>)

C9_Witness ==
    \E i \in TaskIds :
        /\ files0[PathOf(i)] = Array(<<>>)
        /\ tasks[i].pc = "Skipped"
        /\ invalid_count = 1
        /\ \E p \in Paths : Corrupt(files0[p]) /\ ~Exists(files[p])

(***************************************************************************)
(* The run taken one species at a time, as a function of the directory.   *)
(***************************************************************************)
RECURSIVE SeqPages(_, _, _, _)
(* the pagination loop of one call from the request at 'offset' on *)
SeqPages(name, offset, acc, total_records) ==
    IF remote[name].down = offset
    THEN [end |-> IF offset = 0 THEN "Failed" ELSE "Never", recs |-> acc]
    ELSE LET resp == Response(name, offset)
             total == IF total_records = None THEN resp.count ELSE total_records
             got == acc \o resp.results
         IN  IF resp.results = <<>> THEN [end |-> "Completed", recs |-> acc]
             ELSE IF \/ Len(resp.results) < limit
                     \/ Len(got) >= MAX_RECORDS_PER_SPECIES
                     \/ Len(got) >= total
             THEN [end |-> "Completed", recs |-> got]
             ELSE SeqPages(name, offset + limit, got, total)

RECURSIVE SeqRun(_, _, _)
(* the directory after the calls for list[k], list[k+1], ... ran in turn *)
SeqRun(fs, list, k) ==
    IF k > Len(list) THEN fs
    ELSE LET p == Filename(list[k])
             r == SeqPages(list[k], 0, <<>>, None)
         IN  IF Exists(fs[p]) \/ r.end # "Completed" \/ r.recs = <<>>
             THEN SeqRun(fs, list, k + 1)
             ELSE SeqRun([fs EXCEPT ![p] = Array(r.recs)], list, k + 1)

Scanned(fs) == [p \in Paths |-> IF Corrupt(fs[p]) THEN Absent ELSE fs[p]]

DistinctFilenames(list) ==
    \A a, b \in 1..Len(list) : a # b => Filename(list[a]) # Filename(list[b])

(* C10: with pairwise distinct artifact filenames and a remote that answers
   a request the same way every time, a run of the pool of
   PARALLEL_DOWNLOADS > 1 workers ends, whatever the interleaving, with the
   files, and the content of each, that the run taken one species at a time
   ends with. *)
C10_ConcurrencyIsolation ==
    (main_pc = "ended" /\ tasks # <<>> /\ flaky0 = 0 /\ DistinctFilenames(species_list))
        => files = SeqRun(Scanned(files0), species_list, 1)

C10_Witness ==
    /\ main_pc = "ended" /\ flaky0 = 0 /\ DistinctFilenames(species_list)
    /\ Len(tasks) = 2 /\ peak = 2
    /\ \A i \in TaskIds : tasks[i].pc = "Completed" /\ files[PathOf(i)].data # <<>>
    /\ files[PathOf(1)].data # files[PathOf(2)].data

(***************************************************************************)
(* A directory that refuses writes: open or json.dump raising OSError.     *)
(***************************************************************************)
(* line 118 raising: caught at lines 127-129, the call returns 0 *)
OpenFails(i) ==
    /\ tasks[i].pc = "Saving"
    /\ tasks' = [tasks EXCEPT ![i].pc = "Failed", ![i].ret = 0]
    /\ UNCHANGED <<xlsx, export, files, remote, flaky, flaky0, species_list, main_pc, invalid_count,
                   total_downloaded, completed_species, run, files0,
                   zero_before, peak>>

(* line 119 raising after line 118 truncated the file: the file stays as it
   is, the exception is caught at lines 127-129, the call returns 0 *)
DumpFails(i) ==
    /\ tasks[i].pc = "Dumping"
    /\ tasks' = [tasks EXCEPT ![i].pc = "Failed", ![i].ret = 0]
    /\ UNCHANGED <<xlsx, export, files, remote, flaky, flaky0, species_list, main_pc, invalid_count,
                   total_downloaded, completed_species, run, files0,
                   zero_before, peak>>

NextFaults ==
    \/ Next
    \/ \E i \in TaskIds : OpenFails(i)
    \/ \E i \in TaskIds : DumpFails(i)

SpecFaults == Init /\ [][NextFaults]_vars

(* C11: a call that fails returns 0 and its failure changes no other call
   and not the coordinator; a queued call leaves the queue only by being
   started, never by being cancelled; when the run has ended every submitted
   call has reached its end state and the coordinator has processed the
   completion of each. *)
C11_FailureIsolation ==
    /\ [][\A i \in TaskIds :
            (main_pc' = "pool" /\ tasks[i].pc # "Failed" /\ tasks'[i].pc = "Failed")
                => /\ tasks'[i].ret = 0
                   /\ \A j \in TaskIds : j # i => tasks'[j] = tasks[j]
                   /\ main_pc' = main_pc
                   /\ total_downloaded' = total_downloaded
                   /\ completed_species' = completed_species]_vars
    /\ [][\A i \in TaskIds :
            (main_pc' = "pool" /\ tasks[i].pc = "Queued")
                => tasks'[i].pc \in {"Queued", "Paging", "Skipped"}]_vars
    /\ [](\A i \in TaskIds : tasks[i].pc = "Failed" => tasks[i].ret = 0)
    /\ []((main_pc = "ended" /\ tasks # <<>>)
            => /\ \A i \in TaskIds : tasks[i].pc \in Ended /\ tasks[i].consumed
               /\ completed_species = Len(tasks))

C11_Witness ==
    /\ main_pc = "ended"
    /\ \E i, j \in TaskIds :
          /\ tasks[i].pc = "Failed" /\ tasks[i].all_results # <<>> /\ tasks[i].consumed
          /\ tasks[j].pc = "Completed" /\ tasks[j].ret > 0 /\ tasks[j].consumed
          /\ total_downloaded = tasks[j].ret

(***************************************************************************)
(* gbif_v2.py: the earlier downloader.  No scanner, no cap, no declared    *)
(* total, no retry counter; main_pc is "v2_load", "v2_pool", "v2_ended"    *)
(* and a call in progress is at "V2Paging", "V2Saving" or "V2Dumping".     *)
(***************************************************************************)
max_workers == 5

V2Active == {"V2Paging", "V2Saving", "V2Dumping"}

(* gbif_v2.py lines 73-79: the list cannot be read; main returns *)
V2LoadFails ==
    /\ main_pc = "v2_load"
    /\ main_pc' = "v2_ended"
    /\ UNCHANGED <<xlsx, export, files, remote, flaky, flaky0, species_list, invalid_count, tasks,
                   total_downloaded, completed_species, run, files0,
                   zero_before, peak>>

(* gbif_v2.py lines 73-92: one future per entry of the list *)
V2LoadAndSubmit ==
    /\ main_pc = "v2_load"
    /\ tasks' = [i \in 1..Len(species_list) |-> NewTask(species_list[i])]
    /\ total_downloaded' = 0
    /\ main_pc' = "v2_pool"
    /\ UNCHANGED <<xlsx, export, files, remote, flaky, flaky0, species_list, invalid_count,
                   completed_species, run, files0, zero_before, peak>>

V2InProgress(ts) ==
    LET n == Cardinality({j \in 1..Len(ts) : ts[j].pc \in V2Active})
    IN  IF n > peak THEN n ELSE peak

V2CanStart(i) ==
    /\ main_pc = "v2_pool"
    /\ tasks[i].pc = "Queued"
    /\ \A j \in 1..(i - 1) : tasks[j].pc # "Queued"
    /\ Cardinality({j \in TaskIds : tasks[j].pc \in V2Active}) < max_workers

(* gbif_v2.py lines 17-24 *)
V2Skip(i) ==
    /\ V2CanStart(i)
    /\ Exists(files[PathOf(i)])
    /\ tasks' = [tasks EXCEPT ![i].pc = "Skipped", ![i].ret = 0]
    /\ UNCHANGED <<xlsx, export, files, remote, flaky, flaky0, species_list, main_pc, invalid_count,
                   total_downloaded, completed_species, run, files0,
                   zero_before, peak>>

(* gbif_v2.py lines 17-34 *)
V2Begin(i) ==
    /\ V2CanStart(i)
    /\ ~Exists(files[PathOf(i)])
    /\ tasks' = [tasks EXCEPT ![i].pc = "V2Paging"]
    /\ peak' = V2InProgress(tasks')
    /\ UNCHANGED <<xlsx, export, files, remote, flaky, flaky0, species_list, main_pc, invalid_count,
                   total_downloaded, completed_species, run, files0, zero_before>>

(* gbif_v2.py lines 39-55: a search that returns *)
V2PageReceived(t, resp) ==
    LET t1 == [t EXCEPT !.results = resp.results]
    IN  IF resp.results = <<>>
        THEN [t1 EXCEPT !.pc = "V2Saving"]
        ELSE LET t2 == [t1 EXCEPT !.all_results = @ \o resp.results]
             IN  IF Len(resp.results) < limit
                 THEN [t2 EXCEPT !.pc = "V2Saving"]
                 ELSE [t2 EXCEPT !.offset = @ + limit]

(* gbif_v2.py lines 57-60: a search that raises RequestException *)
V2PageFailed(t) == t

V2RequestOk(i) ==
    /\ tasks[i].pc = "V2Paging"
    /\ Len(tasks[i].reqs) < MaxRequests
    /\ remote[tasks[i].name].down # tasks[i].offset
    /\ LET t == [tasks[i] EXCEPT !.reqs = Append(@, tasks[i].offset)]
       IN  tasks' = [tasks EXCEPT ![i] = V2PageReceived(t, Response(t.name, t.offset))]
    /\ UNCHANGED <<xlsx, export, files, remote, flaky, flaky0, species_list, main_pc, invalid_count,
                   total_downloaded, completed_species, run, files0,
                   zero_before, peak>>

V2RequestFails(i) ==
    /\ tasks[i].pc = "V2Paging"
    /\ Len(tasks[i].reqs) < MaxRequests
    /\ \/ remote[tasks[i].name].down = tasks[i].offset /\ flaky' = flaky
       \/ remote[tasks[i].name].down # tasks[i].offset /\ flaky > 0 /\ flaky' = flaky - 1
    /\ LET t == [tasks[i] EXCEPT !.reqs = Append(@, tasks[i].offset)]
       IN  tasks' = [tasks EXCEPT ![i] = V2PageFailed(t)]
    /\ UNCHANGED <<xlsx, export, files, remote, flaky0, species_list, main_pc, invalid_count,
                   total_downloaded, completed_species, run, files0,
                   zero_before, peak>>

(* gbif_v2.py line 63: the file is opened whatever was accumulated *)
V2OpenForWrite(i) ==
    /\ tasks[i].pc = "V2Saving"
    /\ files' = [files EXCEPT ![PathOf(i)] = Partial]
    /\ tasks' = [tasks EXCEPT ![i].pc = "V2Dumping"]
    /\ UNCHANGED <<xlsx, export, remote, flaky, flaky0, species_list, main_pc, invalid_count,
                   total_downloaded, completed_species, run, files0,
                   zero_before, peak>>

(* gbif_v2.py lines 64-66 *)
V2Dump(i) ==
    /\ tasks[i].pc = "V2Dumping"
    /\ files' = [files EXCEPT ![PathOf(i)] = Dumped(@, tasks[i].all_results)]
    /\ tasks' = [tasks EXCEPT ![i].pc = "Completed", ![i].ret = Len(tasks[i].all_results)]
    /\ UNCHANGED <<xlsx, export, remote, flaky, flaky0, species_list, main_pc, invalid_count,
                   total_downloaded, completed_species, run, files0,
                   zero_before, peak>>

(* gbif_v2.py lines 95-97 *)
V2Consume(i) ==
    /\ main_pc = "v2_pool"
    /\ tasks[i].pc \in Ended
    /\ ~tasks[i].consumed
    /\ total_downloaded' = total_downloaded + tasks[i].ret
    /\ tasks' = [tasks EXCEPT ![i].consumed = TRUE]
    /\ UNCHANGED <<xlsx, export, files, remote, flaky, flaky0, species_list, main_pc, invalid_count,
                   completed_species, run, files0, zero_before, peak>>

(* gbif_v2.py lines 87-99 *)
V2Finish ==
    /\ main_pc = "v2_pool"
    /\ \A i \in TaskIds : tasks[i].consumed
    /\ main_pc' = "v2_ended"
    /\ UNCHANGED <<xlsx, export, files, remote, flaky, flaky0, species_list, invalid_count, tasks,
                   total_downloaded, completed_species, run, files0,
                   zero_before, peak>>

(* the analyst starts gbif_v2.py again *)
V2NextRun ==
    /\ main_pc = "v2_ended"
    /\ run < MaxRuns
    /\ run' = run + 1
    /\ main_pc' = "v2_load"
    /\ files0' = files
    /\ tasks' = <<>>
    /\ total_downloaded' = 0
    /\ flaky' \in {0, MaxFlaky}
    /\ flaky0' = flaky'
    /\ zero_before' = {tasks[i].name : i \in {j \in TaskIds :
                            tasks[j].pc \in {"Completed", "Failed"} /\ tasks[j].all_results = <<>>}}
    /\ peak' = 0
    /\ UNCHANGED <<xlsx, export, files, remote, species_list, invalid_count, completed_species>>

InitV2 ==
    /\ InitOne \/ InitTwo
    /\ flaky \in {0, MaxFlaky}
    /\ flaky0 = flaky
    /\ main_pc = "v2_load"
    /\ invalid_count = 0
    /\ tasks = <<>>
    /\ total_downloaded = 0
    /\ completed_species = 0
    /\ run = 1
    /\ files0 = files
    /\ zero_before = {}
    /\ peak = 0
    /\ xlsx = [x \in XlsxPaths |-> NoSheet]
    /\ export = ExportIdle

NextV2 ==
    \/ V2LoadFails
    \/ V2LoadAndSubmit
    \/ \E i \in TaskIds : V2Skip(i)
    \/ \E i \in TaskIds : V2Begin(i)
    \/ \E i \in TaskIds : V2RequestOk(i)
    \/ \E i \in TaskIds : V2RequestFails(i)
    \/ \E i \in TaskIds : V2OpenForWrite(i)
    \/ \E i \in TaskIds : V2Dump(i)
    \/ \E i \in TaskIds : V2Consume(i)
    \/ V2Finish
    \/ V2NextRun

SpecV2 == InitV2 /\ [][NextV2]_vars

(* either program *)
InitBoth == Init \/ InitV2

NextBoth == Next \/ NextV2

SpecBoth == InitBoth /\ [][NextBoth]_vars

(* C12: the step by which main of either program gives up on an unreadable
   species list submits no task and touches no file; a run that ended that
   way has no call, hence no request, and every artifact file present at its
   end is the file that was there when the run started. *)
C12_LoadFailureAborts ==
    /\ [][(main_pc \in {"load", "v2_load"} /\ main_pc' \in {"ended", "v2_ended"})
            => (tasks' = <<>> /\ files' = files)]_vars
    /\ []((main_pc \in {"ended", "v2_ended"} /\ tasks = <<>>)
            => \A p \in Paths : Exists(files[p]) => files[p] = files0[p])

(* a run of gbif_v2.py, and one of gbif.py, ended on the load failure while a
   listed species with records at the remote had no artifact *)
C12_Witness ==
    /\ main_pc \in {"ended", "v2_ended"}
    /\ tasks = <<>>
    /\ \E k \in 1..Len(species_list) :
          /\ ~Exists(files[Filename(species_list[k])])
          /\ Serves(species_list[k])

(***************************************************************************)
(* json_trans.py: convert_json_to_excel over the occurrences directory.    *)
(* export.pc is "idle" (not running), "loop" (lines 50-182) or "done";     *)
(* export.todo holds the files of json_files the loop has not visited,     *)
(* export.first the xlsx_data directory as the first run left it.          *)
(***************************************************************************)
(* json_trans.py lines 40-49: os.listdir, in whatever order it answers *)
ExportStart ==
    /\ export.pc = "idle"
    /\ export' = [export EXCEPT !.pc = "loop",
                                !.todo = {p \in Paths : Exists(files[p])},
                                !.runs = @ + 1]
    /\ UNCHANGED <<xlsx, files, remote, flaky, flaky0, species_list, main_pc,
                   invalid_count, tasks, total_downloaded, completed_species, run,
                   files0, zero_before, peak>>

Visited(p) == export' = [export EXCEPT !.todo = @ \ {p}]

(* the skip of lines 57-59 left out: the workbook is written again *)
ExportSkipRewrites(p) ==
    /\ export.pc = "loop"
    /\ p \in export.todo
    /\ Exists(xlsx[XlsxName(p)])
    /\ xlsx' = [xlsx EXCEPT ![XlsxName(p)] = Sheet(files[p].data)]
    /\ Visited(p)
    /\ UNCHANGED <<files, remote, flaky, flaky0, species_list, main_pc,
                   invalid_count, tasks, total_downloaded, completed_species, run,
                   files0, zero_before, peak>>

(* json_trans.py lines 50-59: the output exists *)
ExportSkip(p) ==
    /\ export.pc = "loop"
    /\ p \in export.todo
    /\ xlsx[XlsxName(p)].kind # "absent"
    /\ Visited(p)
    /\ UNCHANGED <<xlsx, files, remote, flaky, flaky0, species_list, main_pc,
                   invalid_count, tasks, total_downloaded, completed_species, run,
                   files0, zero_before, peak>>

(* json_trans.py lines 63-70: the file loads and 'not data' holds: an empty
   array, or a falsy value that is no array *)
ExportNoData(p) ==
    /\ export.pc = "loop"
    /\ p \in export.todo
    /\ xlsx[XlsxName(p)].kind = "absent"
    /\ Parses(files[p])
    /\ IsList(files[p]) => files[p].data = <<>>
    /\ Visited(p)
    /\ UNCHANGED <<xlsx, files, remote, flaky, flaky0, species_list, main_pc,
                   invalid_count, tasks, total_downloaded, completed_species, run,
                   files0, zero_before, peak>>

(* json_trans.py lines 63-66, 74-76, 181-182: json.load raises, or the value
   is truthy but holds no records (record.get raises); the handler prints *)
ExportError(p) ==
    /\ export.pc = "loop"
    /\ p \in export.todo
    /\ xlsx[XlsxName(p)].kind = "absent"
    /\ ~(Parses(files[p]) /\ IsList(files[p]))
    /\ Visited(p)
    /\ UNCHANGED <<xlsx, files, remote, flaky, flaky0, species_list, main_pc,
                   invalid_count, tasks, total_downloaded, completed_species, run,
                   files0, zero_before, peak>>

(* json_trans.py lines 63-175: a non-empty array is written to its workbook *)
ExportWrite(p) ==
    /\ export.pc = "loop"
    /\ p \in export.todo
    /\ xlsx[XlsxName(p)].kind = "absent"
    /\ Parses(files[p]) /\ IsList(files[p]) /\ files[p].data # <<>>
    /\ xlsx' = [xlsx EXCEPT ![XlsxName(p)] = Sheet(files[p].data)]
    /\ Visited(p)
    /\ UNCHANGED <<files, remote, flaky, flaky0, species_list, main_pc,
                   invalid_count, tasks, total_downloaded, completed_species, run,
                   files0, zero_before, peak>>

(* json_trans.py line 184: the loop is over *)
ExportDone ==
    /\ export.pc = "loop"
    /\ export.todo = {}
    /\ export' = [export EXCEPT !.pc = "done",
                                !.first = IF export.runs = 1 THEN xlsx ELSE @]
    /\ UNCHANGED <<xlsx, files, remote, flaky, flaky0, species_list, main_pc,
                   invalid_count, tasks, total_downloaded, completed_species, run,
                   files0, zero_before, peak>>

(* json_trans.py lines 188-199: the tool is started again *)
ExportAgain ==
    /\ export.pc = "done"
    /\ export.runs < MaxRuns
    /\ export' = [export EXCEPT !.pc = "idle"]
    /\ UNCHANGED <<xlsx, files, remote, flaky, flaky0, species_list, main_pc,
                   invalid_count, tasks, total_downloaded, completed_species, run,
                   files0, zero_before, peak>>

(* what the downloaders can leave under a path *)
Artifacts(name) ==
    {Absent, Partial, Invalid, NotList, Array(<<>>),
     Array(Records(name, 1, 1)), Array(Records(name, 1, limit))}

(* the export finds any directory the downloaders can leave, and any
   selection of workbooks from an earlier export *)
InitExport ==
    /\ \E f \in Artifacts(NameAB), g \in Artifacts(NameC) :
          files = [FilesOf(Filename(NameAB), f) EXCEPT ![Filename(NameC)] = g]
    /\ xlsx \in [XlsxPaths -> {NoSheet, OldSheet}]
    /\ export = ExportIdle
    /\ species_list = <<NameAB, NameC>>
    /\ remote = RemoteOf(NameAB, Healthy(1), NameC, Healthy(1))
    /\ flaky = 0
    /\ flaky0 = 0
    /\ main_pc = "ended"
    /\ invalid_count = 0
    /\ tasks = <<>>
    /\ total_downloaded = 0
    /\ completed_species = 0
    /\ run = MaxRuns
    /\ files0 = files
    /\ zero_before = {}
    /\ peak = 0

NextExport ==
    \/ ExportStart
    \/ \E p \in Paths : ExportSkip(p)
    \/ \E p \in Paths : ExportNoData(p)
    \/ \E p \in Paths : ExportError(p)
    \/ \E p \in Paths : ExportWrite(p)
    \/ ExportDone
    \/ ExportAgain

SpecExport == InitExport /\ [][NextExport]_vars

(* C13: the export visits an artifact whose workbook exists without writing
   anything; no step ever changes the workbook of an artifact that holds the
   empty array, and no workbook stands for such an artifact unless it was
   there before the export; when the second of two consecutive runs is over,
   xlsx_data is exactly what the first run left. *)
C13_ExportIdempotent ==
    /\ [][\A p \in Paths :
            (p \in export.todo /\ p \notin export'.todo /\ xlsx[XlsxName(p)].kind # "absent")
                => xlsx' = xlsx]_vars
    /\ [][\A p \in Paths :
            files[p] = Array(<<>>) => xlsx'[XlsxName(p)] = xlsx[XlsxName(p)]]_vars
    /\ [](\A p \in Paths :
            files[p] = Array(<<>>) => xlsx[XlsxName(p)] \in {NoSheet, OldSheet})
    /\ []((export.pc = "done" /\ export.runs >= 2) => xlsx = export.first)

(* the second run is over; the first wrote one workbook, which the second
   found in place, and neither wrote one for an empty array *)
C13_Witness ==
    /\ export.pc = "done"
    /\ export.runs = 2
    /\ \E p, q \in Paths :
          /\ files[p].data # <<>> /\ xlsx[XlsxName(p)] = Sheet(files[p].data)
          /\ files[q] = Array(<<>>) /\ xlsx[XlsxName(q)] = NoSheet

(* the remote holds more records than it declares on the first page *)
Understated(name) == remote[name].count < remote[name].held

(* pages a call fetches when the declared total understates the remote *)
PagesUntilDeclared(name) ==
    LET n == Ceil(Min(remote[name].count, MAX_RECORDS_PER_SPECIES), limit)
    IN  IF n < 1 THEN 1 ELSE n

(* C14 as stated: against a remote that never fails, holds no more than the
   cap and declares fewer records than it holds, the call pages until a short
   or empty page arrives, and what it accumulated and wrote is every record
   the remote holds. *)
C14_ShortPageAuthoritative ==
    \A i \in TaskIds :
        LET name == tasks[i].name
            held == remote[name].held
        IN  (Downloaded(i) /\ NeverFails(name) /\ Understated(name)
                /\ held <= MAX_RECORDS_PER_SPECIES)
                => /\ tasks[i].reqs = Offsets((held \div limit) + 1)
                   /\ tasks[i].all_results = Records(name, 1, held)
                   /\ SoleOwner(i) => files[PathOf(i)] = Array(Records(name, 1, held))

(* C14, amended: the declared total is a stop condition of its own.  Against
   a remote that never fails and declares fewer records than it holds, the
   call fetches max(1, ceil(min(declared, cap) / limit)) pages and stops after
   the first page that brings the accumulated count to the declared total or
   to the cap, full page or not; the artifact holds the records of those
   pages, the first of the remote's, and not the ones beyond. *)
C14_DeclaredTotalStops ==
    \A i \in TaskIds :
        LET name == tasks[i].name
            n == PagesUntilDeclared(name)
            got == Min(remote[name].held, n * limit)
        IN  (Downloaded(i) /\ NeverFails(name) /\ Understated(name))
                => /\ tasks[i].reqs = Offsets(n)
                   /\ tasks[i].all_results = Records(name, 1, got)
                   /\ tasks[i].pc = "Completed"
                   /\ tasks[i].ret = got
                   /\ SoleOwner(i) => files[PathOf(i)] = Array(Records(name, 1, got))

(* a call stopped after a full page that reached the declared total, below
   the cap, with records left at the remote *)
C14_Witness ==
    \E i \in TaskIds :
        /\ tasks[i].pc = "Completed" /\ NeverFails(tasks[i].name) /\ SoleOwner(i)
        /\ remote[tasks[i].name].count = limit
        /\ tasks[i].reqs = <<0>>
        /\ tasks[i].ret = limit
        /\ limit < MAX_RECORDS_PER_SPECIES
        /\ remote[tasks[i].name].held > limit
        /\ files[PathOf(i)] = Array(Records(tasks[i].name, 1, limit))

(* C15 as stated: with no internal error in play (every failure of these
   behaviours is a failed request), no call takes the Failed path: a call
   that used up its RETRY_COUNT attempts on a page, the first included, is
   not Failed, and a call that has returned has ended Completed or Skipped. *)
C15_TransportNeverFailed ==
    \A i \in TaskIds :
        /\ Attempts(i, tasks[i].offset) >= RETRY_COUNT => tasks[i].pc # "Failed"
        /\ tasks[i].pc \notin (Active \cup {"Queued"}) => tasks[i].pc \in {"Completed", "Skipped"}

(* the remote serves every page of the name and fails fewer than
   RETRY_COUNT requests of the run *)
Transient(name) == remote[name].down = None /\ flaky0 < RETRY_COUNT

(* what the call for the name accumulates against the failure-free remote *)
FailureFree(name) == SeqPages(name, 0, <<>>, None).recs

(* C16: against a remote that fails fewer than RETRY_COUNT attempts and
   otherwise serves its records, a call that has returned ended Completed
   with the records, the return value and the artifact of the failure-free
   remote.  Every request is made at the current offset; an attempt that
   fails leaves offset and accumulated records as they were; the offset
   changes only with a successful full page, by exactly limit, the page being
   appended once; so what is accumulated is always the first records of the
   remote, none skipped and none twice. *)
C16_TransientTransparent ==
    /\ [](\A i \in TaskIds :
            (Downloaded(i) /\ Transient(tasks[i].name))
                => /\ tasks[i].pc = "Completed"
                   /\ tasks[i].all_results = FailureFree(tasks[i].name)
                   /\ tasks[i].ret = Len(FailureFree(tasks[i].name))
                   /\ (SoleOwner(i) /\ FailureFree(tasks[i].name) # <<>>)
                        => files[PathOf(i)] = Array(FailureFree(tasks[i].name)))
    /\ [](\A i \in TaskIds :
            tasks[i].all_results = Records(tasks[i].name, 1, Len(tasks[i].all_results)))
    /\ [][\A i \in TaskIds :
            (main_pc' = "pool" /\ tasks[i].pc = "Paging" /\ tasks'[i].reqs # tasks[i].reqs)
                => LET t == tasks[i]
                       u == tasks'[i]
                       page == Response(t.name, t.offset).results
                   IN  /\ u.reqs = Append(t.reqs, t.offset)
                       /\ u.page_count = t.page_count
                            => /\ u.offset = t.offset
                               /\ u.all_results = t.all_results
                               /\ u.record_count = t.record_count
                       /\ u.offset # t.offset
                            => /\ u.offset = t.offset + limit
                               /\ u.page_count = t.page_count + 1
                               /\ Len(page) = limit
                               /\ u.all_results = t.all_results \o page]_vars

(* a call got through two failed attempts, one of them on its second page,
   and wrote the artifact of the failure-free remote *)
C16_Witness ==
    \E i \in TaskIds :
        /\ tasks[i].pc = "Completed" /\ Transient(tasks[i].name) /\ SoleOwner(i)
        /\ Attempts(i, limit) >= 2
        /\ Len(tasks[i].reqs) = tasks[i].page_count + MaxFlaky
        /\ tasks[i].all_results # <<>>
        /\ files[PathOf(i)] = Array(FailureFree(tasks[i].name))

(* C17 as stated: once the scanner has run, at every step (the process may
   be killed at any of them, leaving the directory as it then is) the path of
   a list entry that shares it with no other entry holds no file, or the
   array the run found there, or the array of everything its call
   accumulated; never a truncated or half-written file. *)
C17_NoPartialArtifact ==
    \A i \in TaskIds :
        (main_pc \in {"pool", "ended"} /\ SoleOwner(i))
            => \/ files[PathOf(i)] = Absent
               \/ files[PathOf(i)] = files0[PathOf(i)] /\ IsList(files0[PathOf(i)])
               \/ files[PathOf(i)] = Array(tasks[i].all_results)

RECURSIVE SumOfCounts(_, _)
(* the counts returned by the calls 1..k among those the predicate keeps *)
SumOfCounts(k, kept) ==
    IF k = 0 THEN 0
    ELSE SumOfCounts(k - 1, kept) + (IF k \in kept THEN tasks[k].ret ELSE 0)

(* the futures the coordinator has taken from as_completed *)
ConsumedIds == {i \in TaskIds : tasks[i].consumed}

(* C18: the two counters change only in a step of the coordinator: when it
   takes one finished future, adding that call's count to total_downloaded
   and one to completed_species while no call moves, or when main sets them
   to 0 before the pool exists; so while the pool runs they are the sum of
   the counts and the number of the futures taken so far, and when the run
   ends they are the sum of all counts (0 for a skipped, empty or failed
   call) and the number of submitted tasks. *)
C18_CountersExact ==
    /\ [][(total_downloaded' # total_downloaded \/ completed_species' # completed_species)
            => \/ /\ main_pc' # "pool" \/ main_pc = "load"
                  /\ total_downloaded' = 0 /\ completed_species' = 0
               \/ \E i \in TaskIds :
                     /\ tasks[i].pc \in Ended /\ ~tasks[i].consumed
                     /\ tasks' = [tasks EXCEPT ![i].consumed = TRUE]
                     /\ total_downloaded' = total_downloaded + tasks[i].ret
                     /\ completed_species' = completed_species + 1]_vars
    /\ [](main_pc \in {"pool", "ended"}
            => /\ total_downloaded = SumOfCounts(Len(tasks), ConsumedIds)
               /\ completed_species = Cardinality(ConsumedIds))
    /\ []((main_pc = "ended" /\ tasks # <<>>)
            => /\ completed_species = Len(tasks)
               /\ total_downloaded = SumOfCounts(Len(tasks), TaskIds)
               /\ \A i \in TaskIds : tasks[i].pc \in {"Skipped", "Failed"} => tasks[i].ret = 0)

(* a run ended after two calls that were in progress together both returned
   records *)
C18_Witness ==
    /\ main_pc = "ended"
    /\ Len(tasks) = 2
    /\ peak = 2
    /\ tasks[1].ret > 0 /\ tasks[2].ret > 0
    /\ total_downloaded = tasks[1].ret + tasks[2].ret
    /\ completed_species = 2

(* C19 as stated: in gbif_v2.py a call never makes more than 3 attempts for
   one page, and against a remote that fails every request for the species
   the call has stopped once it made them. *)
C19_V2RetriesBounded ==
    \A i \in TaskIds :
        /\ Attempts(i, tasks[i].offset) <= 3
        /\ (remote[tasks[i].name].down = 0 /\ Attempts(i, 0) >= 3)
                => tasks[i].pc \in Ended

(* C20 as stated: in gbif_v2.py a call that has returned with nothing
   accumulated, its path shared with no other entry and free when the run
   started, has left no file there. *)
C20_V2NoEmptyArtifact ==
    \A i \in TaskIds :
        (tasks[i].pc \in {"Completed", "Failed"} /\ tasks[i].all_results = <<>>
            /\ SoleOwner(i) /\ ~Exists(files0[PathOf(i)]))
            => ~Exists(files[PathOf(i)])

(***************************************************************************)
(* Lists longer than the pools: three entries for the two threads of       *)
(* gbif.py, six for the five of gbif_v2.py.  The long run of gbif_v2.py is *)
(* the last one of a session in which the remote does not fail (as after   *)
(* runs that ended on an unreadable list); its runs with failures and its  *)
(* reruns are those of a one-entry list.                                   *)
(***************************************************************************)
LongList(n) == [k \in 1..n |-> IF k % 3 = 1 THEN NameAB ELSE IF k % 3 = 2 THEN NameC ELSE NameA_B]

InitPool ==
    /\ \/ /\ main_pc = "verify"
          /\ species_list = LongList(PARALLEL_DOWNLOADS + 1)
          /\ flaky \in {0, MaxFlaky}
          /\ run = 1
       \/ /\ main_pc = "v2_load"
          /\ species_list = LongList(max_workers + 1)
          /\ flaky = 0
          /\ run = MaxRuns
       \/ /\ main_pc = "v2_load"
          /\ species_list = <<NameAB>>
          /\ flaky \in {0, MaxFlaky}
          /\ run = 1
    /\ remote = RemoteOf(NameAB, Healthy(1), NameC, Healthy(0))
    /\ files = [p \in Paths |-> Absent]
    /\ flaky0 = flaky
    /\ invalid_count = 0
    /\ tasks = <<>>
    /\ total_downloaded = 0
    /\ completed_species = 0
    /\ files0 = files
    /\ zero_before = {}
    /\ peak = 0
    /\ xlsx = [x \in XlsxPaths |-> NoSheet]
    /\ export = ExportIdle

SpecPool == InitPool /\ [][NextBoth]_vars

(* the threads of the pool of the program that is running *)
WorkerCount ==
    IF main_pc \in {"v2_load", "v2_pool", "v2_ended"} THEN max_workers ELSE PARALLEL_DOWNLOADS

(* the calls that were taken from the queue and have not returned *)
Running == {i \in TaskIds : tasks[i].pc \in (Active \cup V2Active)}

(* C21: at every point of a run no more calls are in progress than the pool
   of the running program has threads (PARALLEL_DOWNLOADS in gbif.py,
   max_workers in gbif_v2.py), and no more ever were; a call is taken from
   the queue only in a step before which fewer calls than threads are in
   progress, that is, when a thread has no species or its species has
   reached Completed, Skipped or Failed; and a call in progress stays in
   progress until it reaches one of these: it is never put back. *)
C21_PoolBound ==
    /\ [](Cardinality(Running) <= WorkerCount /\ peak <= WorkerCount)
    /\ [][\A i \in TaskIds :
            (main_pc' \in {"pool", "v2_pool"} /\ tasks[i].pc = "Queued" /\ tasks'[i].pc # "Queued")
                => /\ Cardinality(Running) < WorkerCount
                   /\ \A j \in TaskIds : j # i => tasks'[j] = tasks[j]]_vars
    /\ [][\A i \in TaskIds :
            (main_pc' \in {"pool", "v2_pool"} /\ i \in Running)
                => tasks'[i].pc \in (Active \cup V2Active \cup Ended)]_vars

(* both threads of gbif.py were busy with the first two entries; the third
   entry is in progress now that one of them has returned *)
C21_Witness ==
    /\ main_pc = "pool"
    /\ Len(tasks) = PARALLEL_DOWNLOADS + 1
    /\ peak = PARALLEL_DOWNLOADS
    /\ Cardinality(Running) = PARALLEL_DOWNLOADS
    /\ Len(tasks) \in Running
    /\ \E i \in TaskIds : tasks[i].pc \in Ended

(* C22: in a call of gbif.py the first request is preceded by no sleep and
   every later one by a sleep the call itself took since its previous
   request: exactly REQUEST_DELAY when that request brought a page,
   RETRY_DELAY (followed by REQUEST_DELAY once the call has had a page) when
   it failed.  The sleeps are the call's own: a step in which a call sleeps
   or sends a request leaves every other call as it is, and whatever the
   other calls are waiting for, a call that is paging can send its request. *)
C22_DelaysLocal ==
    /\ [](\A i \in TaskIds :
            /\ Len(tasks[i].waits) = Len(tasks[i].reqs)
            /\ Len(tasks[i].outcomes) = Len(tasks[i].reqs)
            /\ \A k \in 1..Len(tasks[i].reqs) :
                  IF k = 1 THEN tasks[i].waits[k] = <<>>
                  ELSE IF tasks[i].outcomes[k - 1] = "ok"
                       THEN tasks[i].waits[k] = <<REQUEST_DELAY>>
                       ELSE tasks[i].waits[k] \in {<<RETRY_DELAY>>, <<RETRY_DELAY, REQUEST_DELAY>>})
    /\ [][\A i \in TaskIds :
            (main_pc' = "pool"
                /\ (tasks'[i].waits # tasks[i].waits \/ tasks'[i].delay # tasks[i].delay))
                => \A j \in TaskIds : j # i => tasks'[j] = tasks[j]]_vars
    /\ [](\A j \in TaskIds :
            (main_pc = "pool" /\ tasks[j].pc = "Paging" /\ Len(tasks[j].reqs) < MaxRequests)
                => ENABLED (RequestOk(j) \/ RequestFails(j)))

(* a call slept RETRY_DELAY after a failed first attempt and REQUEST_DELAY
   after its first page, and is in the sleep that follows a failed attempt
   while another call has sent a request of its own *)
C22_Witness ==
    \E i, j \in TaskIds :
        /\ i # j
        /\ tasks[i].pc = "Paging"
        /\ tasks[i].outcomes = <<"failed", "ok", "failed">>
        /\ tasks[i].waits = <<<<>>, <<RETRY_DELAY>>, <<REQUEST_DELAY>>>>
        /\ tasks[i].delay = <<RETRY_DELAY>>
        /\ tasks[j].pc = "Paging"
        /\ tasks[j].reqs # <<>>

====
